---- MODULE Spec2Model ----
(***************************************************************************)
(* Game of Life (TRON style): the grid store (src/src/gridState.js), the   *)
(* transition engine run by the web worker (src/src/gameLogic.worker.js),  *)
(* the stepping controller (src/src/simulationController.js) and the size  *)
(* handler of the UI (src/src/uiController.js).                            *)
(*                                                                         *)
(* A grid is a function from row indices 0..rows-1 to rows, a row being a  *)
(* function from column indices 0..cols-1 to ages.  The stored grid keeps  *)
(* its own shape, separate from the variables width and height, as the     *)
(* JavaScript arrays do.                                                   *)
(***************************************************************************)
EXTENDS Integers, Sequences, FiniteSets, TLC

VARIABLES
  grid, width, height, generationCount,       \* gridState.js
  isRunning, simulationSpeed, timeoutId,      \* simulationController.js
  historicOldestAge, totalBornCount, totalDiedCount, isCalculating,
  timers,                                     \* pending setTimeout timers of the event loop
  inFlight,                                   \* requests posted to the worker, not yet answered
  lastOp,                                     \* history: the handler that ran last
  uiLog,                                      \* history: the records the last handler gave updateUICallback
  posted,                                     \* history: worker.postMessage calls of the last handler
  applied                                     \* history: results applied since the last createGrid

vars == <<grid, width, height, generationCount, isRunning, simulationSpeed, timeoutId,
          historicOldestAge, totalBornCount, totalDiedCount, isCalculating, timers,
          inFlight, lastOp, uiLog, posted, applied>>

gridVars == <<grid, width, height, generationCount>>
statVars == <<historicOldestAge, totalBornCount, totalDiedCount>>

\* ------------------------------------------------------------------ bounds

\* The scheduler model: grids of at most MaxCells cells, ages up to MaxAge,
\* at most MaxGen generations (applied or in flight) since the last reset.
MaxCells == 2
MaxAge == 2
MaxGen == 2
\* The stepping loop without edits: random grids of at most LoopMaxCells cells.
LoopMaxCells == 4
\* The transition engine on its own: every grid of at most EngMaxCells cells
\* with ages 0..EngMaxAge, stepped EngMaxSteps times.
EngMaxCells == 9
EngMaxAge == 1
EngMaxSteps == 2
\* The block grids: width and height 2..BlockMaxDim.
BlockMaxDim == 4
\* The resize operator on its own: dimensions 1..ResizeMaxDim per axis.
ResizeMaxDim == 6
\* The greatest number of columns or rows a grid is grown by and shrunk back.
GrowMax == 3
\* The smallest size the size inputs accept (their min attribute).
UiMinDim == 1

\* ------------------------------------------------------------------ values

\* What grid[y]?.[x] yields outside the stored arrays.
Undefined == -1
\* timeoutId === null (the ids setTimeout returns are positive)
NoTimeout == 0

Max(a, b) == IF a > b THEN a ELSE b
Min(a, b) == IF a < b THEN a ELSE b

\* JavaScript's remainder: the sign of the dividend.
JsRem(a, b) == IF a >= 0 THEN a % b ELSE -((-a) % b)
\* Math.floor(a / 2) and Math.ceil(a / 2)
FloorHalf(a) == a \div 2
CeilHalf(a) == -((-a) \div 2)

\* grid[y]?.[x]
CellAt(g, x, y) ==
  IF y \in DOMAIN g THEN (IF x \in DOMAIN g[y] THEN g[y][x] ELSE Undefined) ELSE Undefined

\* A grid with exactly h rows of exactly w cells.
WellFormed(g, w, h) ==
  /\ DOMAIN g = 0..(h - 1)
  /\ \A y \in DOMAIN g : DOMAIN g[y] = 0..(w - 1)

Cells(w, h) == (0..(w - 1)) \X (0..(h - 1))

GridsOf(w, h, ages) == [0..(h - 1) -> [0..(w - 1) -> ages]]

MaxOver(S) == IF S = {} THEN 0 ELSE CHOOSE m \in S : \A n \in S : n <= m

\* The ages stored in a grid, whatever its shape.
AgesIn(g) == UNION {{g[y][x] : x \in DOMAIN g[y]} : y \in DOMAIN g}

\* The shapes (width, height) of at most n cells.
Shapes(n) == {s \in (1..n) \X (1..n) : s[1] * s[2] <= n}

\* ------------------------------------------------- gameLogic.worker.js

\* The (dx, dy) pairs in the order of the two loops, (0, 0) skipped.
Offsets ==
  << <<-1, -1>>, <<0, -1>>, <<1, -1>>,
     <<-1, 0>>,             <<1, 0>>,
     <<-1, 1>>,  <<0, 1>>,  <<1, 1>> >>

\* Mutant: no wrap-around, a neighbour outside the grid counts as dead.
neighborAlive_NoWrap(x, y, dx, dy, w, h, g) ==
  IF CellAt(g, x + dx, y + dy) > 0 THEN 1 ELSE 0

\* One turn of the inner loop: 1 when the wrapped neighbour is alive.
neighborAlive(x, y, dx, dy, w, h, g) ==
  LET nx == (x + dx + w) % w
      ny == (y + dy + h) % h
  IN  IF CellAt(g, nx, ny) > 0 THEN 1 ELSE 0

RECURSIVE countFrom(_, _, _, _, _, _)
countFrom(i, x, y, w, h, g) ==
  IF i > Len(Offsets) THEN 0
  ELSE neighborAlive(x, y, Offsets[i][1], Offsets[i][2], w, h, g)
         + countFrom(i + 1, x, y, w, h, g)

countNeighbors(x, y, w, h, g) == countFrom(1, x, y, w, h, g)

\* Mutant: a live cell survives with 2 neighbours only.
nextIsAlive_OnlyTwo(currentIsAlive, neighbors) ==
  IF currentIsAlive
    THEN neighbors = 2
    ELSE neighbors = 3

\* Mutant: a live cell survives with fewer than 2 neighbours too.
nextIsAlive_LonelySurvives(currentIsAlive, neighbors) ==
  IF currentIsAlive
    THEN ~(neighbors > 3)
    ELSE neighbors = 3

\* Mutant: a dead cell without alive neighbours comes alive.
nextIsAlive_Spontaneous(currentIsAlive, neighbors) ==
  IF currentIsAlive
    THEN ~(neighbors < 2 \/ neighbors > 3)
    ELSE neighbors = 3 \/ neighbors = 0

\* The rule: whether the cell is alive in the next generation.
nextIsAlive(currentIsAlive, neighbors) ==
  IF currentIsAlive
    THEN ~(neighbors < 2 \/ neighbors > 3)
    ELSE neighbors = 3

\* Mutant: a surviving cell keeps its age.
nextAge_NoAging(currentAge, neighbors) ==
  LET currentIsAlive == currentAge > 0
  IN  IF nextIsAlive(currentIsAlive, neighbors)
        THEN (IF currentIsAlive THEN currentAge ELSE 1)
        ELSE 0

\* The age the cell gets.
nextAge(currentAge, neighbors) ==
  LET currentIsAlive == currentAge > 0
  IN  IF nextIsAlive(currentIsAlive, neighbors)
        THEN (IF currentIsAlive THEN currentAge + 1 ELSE 1)
        ELSE 0

\* currentCellState?.age || 0
currentAgeAt(g, x, y) == IF CellAt(g, x, y) > 0 THEN CellAt(g, x, y) ELSE 0

cellNextAge(g, w, h, x, y) ==
  nextAge(currentAgeAt(g, x, y), countNeighbors(x, y, w, h, g))

\* Mutant: every alive next cell counts as born, and the oldest age is taken
\* over the current cells.
accStep_Mutant(acc, cur, nxt) ==
  [born   |-> IF nxt > 0 THEN acc.born + 1 ELSE acc.born,
   died   |-> IF ~(nxt > 0) /\ cur > 0 THEN acc.died + 1 ELSE acc.died,
   oldest |-> IF cur > acc.oldest THEN cur ELSE acc.oldest]

\* Mutant: every cell dead in the output counts as died.
accStep_DiedAlways(acc, cur, nxt) ==
  [born   |-> IF nxt > 0 /\ ~(cur > 0) THEN acc.born + 1 ELSE acc.born,
   died   |-> IF ~(nxt > 0) THEN acc.died + 1 ELSE acc.died,
   oldest |-> IF nxt > 0 /\ nxt > acc.oldest THEN nxt ELSE acc.oldest]

\* The statistics after one more cell, whose age goes from cur to nxt.
accStep(acc, cur, nxt) ==
  [born   |-> IF nxt > 0 /\ ~(cur > 0) THEN acc.born + 1 ELSE acc.born,
   died   |-> IF ~(nxt > 0) /\ cur > 0 THEN acc.died + 1 ELSE acc.died,
   oldest |-> IF nxt > 0 /\ nxt > acc.oldest THEN nxt ELSE acc.oldest]

\* The statistics, accumulated cell by cell in row-major order as the loops do;
\* i is the index y * w + x of the next cell.
RECURSIVE accumulate(_, _, _, _, _)
accumulate(i, acc, g, w, h) ==
  IF i >= w * h THEN acc
  ELSE accumulate(i + 1,
         accStep(acc, currentAgeAt(g, i % w, i \div w), cellNextAge(g, w, h, i % w, i \div w)),
         g, w, h)

computeNextGeneration(g, w, h) ==
  [nextGrid |-> [y \in 0..(h - 1) |-> [x \in 0..(w - 1) |-> cellNextAge(g, w, h, x, y)]],
   stats    |-> accumulate(0, [born |-> 0, died |-> 0, oldest |-> 0], g, w, h)]

\* ------------------------------------------------------------ gridState.js

\* Mutant: createGrid also draws cells of age 2.
createdGrids_Older(w, h) == GridsOf(w, h, {0, 1, 2})

\* createGrid draws each cell at random: age 1 or age 0.
createdGrids(w, h) == GridsOf(w, h, {0, 1})

\* Mutant: the offset is always the floor of half the difference.
centerOffset_Floor(delta, oldSize) == FloorHalf(delta)

\* Mutant: the offset is always the ceiling of half the difference.
centerOffset_Ceil(delta, oldSize) == CeilHalf(delta)

\* The offset that centres the old grid along one axis.
centerOffset(delta, oldSize) ==
  IF JsRem(delta, 2) # 0 /\ JsRem(oldSize, 2) = 0
    THEN CeilHalf(delta)
    ELSE FloorHalf(delta)

\* The grid resizeGrid builds: all dead, then the copied part of the old grid.
\* The copy loops run over the old cells; here each new cell looks up the old
\* cell that the loops copy into it, if any.
resizedGrid(oldGrid, oldWidth, oldHeight, newWidth, newHeight) ==
  LET offsetX == centerOffset(newWidth - oldWidth, oldWidth)
      offsetY == centerOffset(newHeight - oldHeight, oldHeight)
      copyStartX == Max(0, -offsetX)
      copyStartY == Max(0, -offsetY)
      copyEndX == Min(oldWidth, newWidth - offsetX)
      copyEndY == Min(oldHeight, newHeight - offsetY)
  IN  [newY \in 0..(newHeight - 1) |->
        [newX \in 0..(newWidth - 1) |->
          LET oldX == newX - offsetX
              oldY == newY - offsetY
          IN  IF /\ oldX >= copyStartX /\ oldX < copyEndX
                 /\ oldY >= copyStartY /\ oldY < copyEndY
                 /\ CellAt(oldGrid, oldX, oldY) # Undefined
                THEN oldGrid[oldY][oldX]
                ELSE 0]]

\* Mutant: resizeGrid builds a new grid even when the dimensions are the same,
\* and copies nothing into it.
resizeGrid_Fresh(g, w, h, newWidth, newHeight) ==
  <<[y \in 0..(newHeight - 1) |-> [x \in 0..(newWidth - 1) |-> 0]], newWidth, newHeight>>

\* resizeGrid as a whole: the new <<grid, width, height>>.
resizeGrid(g, w, h, newWidth, newHeight) ==
  IF newWidth = w /\ newHeight = h
    THEN <<g, w, h>>
    ELSE <<resizedGrid(g, w, h, newWidth, newHeight), newWidth, newHeight>>

\* clearGrid: every stored cell inside width x height becomes dead.
clearGrid(g, w, h) ==
  [y \in DOMAIN g |->
    [x \in DOMAIN g[y] |-> IF x < w /\ y < h THEN 0 ELSE g[y][x]]]

\* Mutant: the generation counter is not incremented.
updateGrid_NoIncrement(nextGrid, generation) == <<nextGrid, generation>>

\* updateGrid: the new <<grid, generationCount>>.
updateGrid(nextGrid, generation) == <<nextGrid, generation + 1>>

\* setCellState: the cell is replaced when it exists, else nothing happens.
setCellState(g, x, y, age) ==
  IF CellAt(g, x, y) # Undefined
    THEN [g EXCEPT ![y] = [g[y] EXCEPT ![x] = age]]
    ELSE g

\* getCellState: the stored cell, undefined outside the stored arrays.
getCellState(g, x, y) == CellAt(g, x, y)

\* ------------------------------------------------------------ gameLogic.js
\* The in-thread engine.  It reads the grid store (g, width w, height h)
\* through getCellState, getWidth and getHeight.

\* Mutant: the in-thread engine counts the cell itself among its neighbours.
gameLogicNeighborTurn_CountsSelf(k, x, y, w, h, g) ==
  LET dy == (k \div 3) - 1
      dx == (k % 3) - 1
      nx == (x + dx + w) % w
      ny == (y + dy + h) % h
  IN  IF getCellState(g, nx, ny) > 0 THEN 1 ELSE 0

\* Turn k = 0..8 of the two loops of countNeighbors, dy outer and dx inner:
\* what it adds to the count.
gameLogicNeighborTurn(k, x, y, w, h, g) ==
  LET dy == (k \div 3) - 1
      dx == (k % 3) - 1
      nx == (x + dx + w) % w
      ny == (y + dy + h) % h
  IN  IF dx = 0 /\ dy = 0
        THEN 0
        ELSE IF getCellState(g, nx, ny) > 0 THEN 1 ELSE 0

RECURSIVE gameLogicCountFrom(_, _, _, _, _, _)
gameLogicCountFrom(k, x, y, w, h, g) ==
  IF k > 8 THEN 0
  ELSE gameLogicNeighborTurn(k, x, y, w, h, g) + gameLogicCountFrom(k + 1, x, y, w, h, g)

gameLogicCountNeighbors(x, y, w, h, g) == gameLogicCountFrom(0, x, y, w, h, g)

\* The body of the inner loop of computeNextGeneration for the cell (x, y):
\* the age stored in nextGrid and what the cell adds to born and died.
gameLogicCell(g, w, h, x, y) ==
  LET neighbors == gameLogicCountNeighbors(x, y, w, h, g)
      currentCellState == getCellState(g, x, y)
      currentAge == IF currentCellState > 0 THEN currentCellState ELSE 0
      currentIsAlive == currentAge > 0
      nextIsAliveHere ==
        IF currentIsAlive
          THEN (IF neighbors < 2 \/ neighbors > 3 THEN FALSE ELSE currentIsAlive)
          ELSE (IF neighbors = 3 THEN TRUE ELSE currentIsAlive)
  IN  IF nextIsAliveHere
        THEN IF currentIsAlive
               THEN [age |-> currentAge + 1, born |-> 0, died |-> 0]
               ELSE [age |-> 1, born |-> 1, died |-> 0]
        ELSE [age |-> 0, born |-> 0, died |-> (IF currentIsAlive THEN 1 ELSE 0)]

\* The counters after the cells of index i and on, row by row.
RECURSIVE gameLogicStats(_, _, _, _, _, _, _)
gameLogicStats(i, cellsBorn, cellsDied, currentOldestAge, g, w, h) ==
  IF i >= w * h
    THEN [born |-> cellsBorn, died |-> cellsDied, oldest |-> currentOldestAge]
    ELSE LET c == gameLogicCell(g, w, h, i % w, i \div w)
         IN  gameLogicStats(i + 1, cellsBorn + c.born, cellsDied + c.died,
                            IF c.age > currentOldestAge THEN c.age ELSE currentOldestAge,
                            g, w, h)

\* gameLogic.computeNextGeneration() on the grid store.
gameLogicComputeNextGeneration(g, w, h) ==
  [nextGrid |-> [y \in 0..(h - 1) |-> [x \in 0..(w - 1) |-> gameLogicCell(g, w, h, x, y).age]],
   stats    |-> gameLogicStats(0, 0, 0, 0, g, w, h)]

\* getAliveStats: the count over width x height; the percentage with one
\* decimal (toFixed(1)) is kept as a number of tenths, rounded half up.
aliveCount(g, w, h) == Cardinality({c \in Cells(w, h) : CellAt(g, c[1], c[2]) > 0})

alivePercent(g, w, h) ==
  IF w * h > 0
    THEN (aliveCount(g, w, h) * 2000 + w * h) \div (2 * w * h)
    ELSE 0

\* ------------------------------------------------- simulationController.js

\* DEFAULT_SPEED, in milliseconds
DEFAULT_SPEED == 500

\* The message requestNextStep posts: a structured clone of the grid and its size.
Request(g, w, h) == [grid |-> g, width |-> w, height |-> h]

\* Mutant: the worker reads the stored grid as it is when the answer arrives.
Result_LiveGrid(req) == computeNextGeneration(grid, width, height)

\* The worker answers its requests in the order posted, each with the result of
\* computeNextGeneration on the request (self.onmessage) or with an error; the
\* answer reaches worker.onmessage or worker.onerror.  The worker keeps no state
\* and reads nothing but the request, so the moment it computes is not
\* observable: the request stays in inFlight until its answer is handled.
Result(req) == computeNextGeneration(req.grid, req.width, req.height)

\* Computations posted whose result the main thread has not yet received.
Outstanding == Len(inFlight)

\* The bounds of the model: a computation is posted only while the generations
\* applied and in flight stay below MaxGen and the ages below MaxAge.
CanPost(g) ==
  /\ generationCount + Outstanding < MaxGen
  /\ MaxOver(AgesIn(g)) < MaxAge

\* Whether requestNextStep gets as far as worker.postMessage.
requestPosts(running, tid, calculating) ==
  IF ~running /\ tid = NoTimeout
    THEN ~calculating
    ELSE IF ~running
      THEN FALSE
      ELSE ~calculating

\* requestNextStep, called with the controller's flags as they are at the call
\* and the grid store as it is at the call.
requestNextStep(running, tid, calculating, g, w, h) ==
  IF requestPosts(running, tid, calculating)
    THEN /\ CanPost(g)
         /\ isCalculating' = TRUE
         /\ inFlight' = Append(inFlight, Request(g, w, h))
         /\ posted' = 1
    ELSE /\ isCalculating' = calculating
         /\ inFlight' = inFlight
         /\ posted' = 0

\* Mutant: clearTimeout drops nothing.
clearTimeout_Nothing(tm, id) == tm

\* clearTimeout(id): the timer with that id, if still pending, is dropped.
clearTimeout(tm, id) == {t \in tm : t.id # id}

\* setTimeout returns an id no pending timer has and the variable does not hold.
newTimeoutId(tm, tid) ==
  CHOOSE i \in 1..(Cardinality(tm) + 2) :
    /\ i # tid
    /\ \A t \in tm : t.id # i
    /\ \A j \in 1..(i - 1) : j = tid \/ \E t \in tm : t.id = j

\* Mutant: pauseGame forgets the timer without clearing it.
pauseGame_KeepTimer(running, tid, tm) ==
  IF ~running
    THEN <<running, tid, tm>>
    ELSE <<FALSE, NoTimeout, tm>>

\* pauseGame: the new <<isRunning, timeoutId, timers>>.
pauseGame(running, tid, tm) ==
  IF ~running
    THEN <<running, tid, tm>>
    ELSE <<FALSE, NoTimeout, IF tid # NoTimeout THEN clearTimeout(tm, tid) ELSE tm>>

\* Mutant: the record carries the generation before the result was applied.
stepStats_StaleGeneration(stats, totalBorn, totalDied, historic, generation, g, w, h) ==
  [born |-> stats.born, died |-> stats.died,
   totalBorn |-> totalBorn, totalDied |-> totalDied,
   oldestCurrent |-> stats.oldest, oldestHistoric |-> historic,
   generation |-> generation - 1, alivePercent |-> alivePercent(g, w, h)]

\* The record worker.onmessage gives the UI callback.
stepStats(stats, totalBorn, totalDied, historic, generation, g, w, h) ==
  [born |-> stats.born, died |-> stats.died,
   totalBorn |-> totalBorn, totalDied |-> totalDied,
   oldestCurrent |-> stats.oldest, oldestHistoric |-> historic,
   generation |-> generation, alivePercent |-> alivePercent(g, w, h)]

\* The record handleClearGrid and handleResetGrid give the UI callback.
zeroStats(generation, g, w, h) ==
  [born |-> 0, died |-> 0, totalBorn |-> 0, totalDied |-> 0,
   oldestCurrent |-> 0, oldestHistoric |-> 0,
   generation |-> generation, alivePercent |-> alivePercent(g, w, h)]

\* Mutant: the historic oldest age is never raised.
newHistoricOldestAge_Keep(historic, stats) == historic

\* Mutant: the total of births takes the step's deaths.
newTotalBornCount_Mutant(total, stats) == total + stats.died

\* The cumulative statistics after a result with these stats.
newHistoricOldestAge(historic, stats) ==
  IF stats.oldest > historic THEN stats.oldest ELSE historic
newTotalBornCount(total, stats) == total + stats.born
newTotalDiedCount(total, stats) == total + stats.died

\* Mutant: startGame leaves the flag isCalculating as it is.
startGame_KeepFlag(running, tid, calculating, g, w, h) ==
  IF running
    THEN /\ isRunning' = running
         /\ isCalculating' = calculating
         /\ inFlight' = inFlight
         /\ posted' = 0
    ELSE /\ isRunning' = TRUE
         /\ requestNextStep(TRUE, tid, calculating, g, w, h)

\* startGame, from the given flags and grid store: sets isRunning',
\* isCalculating', inFlight' and posted'.
startGame(running, tid, calculating, g, w, h) ==
  IF running
    THEN /\ isRunning' = running
         /\ isCalculating' = calculating
         /\ inFlight' = inFlight
         /\ posted' = 0
    ELSE /\ isRunning' = TRUE
         /\ requestNextStep(TRUE, tid, FALSE, g, w, h)

\* A call of pauseGame: sets isRunning', timeoutId' and timers'.
DoPauseGame ==
  LET p == pauseGame(isRunning, timeoutId, timers)
  IN  /\ isRunning' = p[1]
      /\ timeoutId' = p[2]
      /\ timers' = p[3]

\* ---------------------------------------------------------------- handlers

StartGame ==
  /\ lastOp' = "startGame"
  /\ startGame(isRunning, timeoutId, isCalculating, grid, width, height)
  /\ uiLog' = <<>>
  /\ UNCHANGED <<gridVars, statVars, simulationSpeed, timeoutId, timers, applied>>

PauseGame ==
  /\ lastOp' = "pauseGame"
  /\ DoPauseGame
  /\ uiLog' = <<>>
  /\ posted' = 0
  /\ UNCHANGED <<gridVars, statVars, simulationSpeed, isCalculating, inFlight, applied>>

ToggleSimulation ==
  /\ lastOp' = "toggleSimulation"
  /\ IF isRunning
       THEN /\ DoPauseGame
            /\ posted' = 0
            /\ UNCHANGED <<isCalculating, inFlight>>
       ELSE /\ startGame(isRunning, timeoutId, isCalculating, grid, width, height)
            /\ UNCHANGED <<timeoutId, timers>>
  /\ uiLog' = <<>>
  /\ UNCHANGED <<gridVars, statVars, simulationSpeed, applied>>

\* Mutant: runStep without the check of isRunning.
RunStep_NoRunningCheck ==
  /\ lastOp' = "runStep"
  /\ IF isCalculating
       THEN /\ posted' = 0
            /\ UNCHANGED <<isCalculating, inFlight>>
       ELSE requestNextStep(isRunning, timeoutId, isCalculating, grid, width, height)
  /\ uiLog' = <<>>
  /\ UNCHANGED <<gridVars, statVars, isRunning, simulationSpeed, timeoutId, timers, applied>>

RunStep ==
  /\ lastOp' = "runStep"
  /\ IF isRunning \/ isCalculating
       THEN /\ posted' = 0
            /\ UNCHANGED <<isCalculating, inFlight>>
       ELSE requestNextStep(isRunning, timeoutId, isCalculating, grid, width, height)
  /\ uiLog' = <<>>
  /\ UNCHANGED <<gridVars, statVars, isRunning, simulationSpeed, timeoutId, timers, applied>>

\* Mutant: the speed is stored as given.
SetSimulationSpeed_NoClamp(newSpeed) ==
  /\ lastOp' = "setSimulationSpeed"
  /\ simulationSpeed' = newSpeed
  /\ uiLog' = <<>>
  /\ posted' = 0
  /\ UNCHANGED <<gridVars, statVars, isRunning, timeoutId, isCalculating, timers,
                 inFlight, applied>>

SetSimulationSpeed(newSpeed) ==
  /\ lastOp' = "setSimulationSpeed"
  /\ simulationSpeed' = Max(0, newSpeed)
  /\ uiLog' = <<>>
  /\ posted' = 0
  /\ UNCHANGED <<gridVars, statVars, isRunning, timeoutId, isCalculating, timers,
                 inFlight, applied>>

HandleClearGrid ==
  /\ lastOp' = "handleClearGrid"
  /\ DoPauseGame
  /\ grid' = clearGrid(grid, width, height)
  /\ historicOldestAge' = 0
  /\ totalBornCount' = 0
  /\ totalDiedCount' = 0
  /\ uiLog' = <<zeroStats(generationCount, grid', width, height)>>
  /\ posted' = 0
  /\ UNCHANGED <<width, height, generationCount, simulationSpeed, isCalculating,
                 inFlight, applied>>

HandleResetGrid ==
  /\ lastOp' = "handleResetGrid"
  /\ DoPauseGame
  /\ grid' \in createdGrids(width, height)
  /\ generationCount' = 0
  /\ applied' = 0
  /\ historicOldestAge' = 0
  /\ totalBornCount' = 0
  /\ totalDiedCount' = 0
  /\ uiLog' = <<zeroStats(generationCount', grid', width, height)>>
  /\ posted' = 0
  /\ UNCHANGED <<width, height, simulationSpeed, isCalculating, inFlight>>

\* gridState.resizeGrid called on its own.
ResizeGrid(newWidth, newHeight) ==
  /\ lastOp' = "resizeGrid"
  /\ grid' = resizeGrid(grid, width, height, newWidth, newHeight)[1]
  /\ width' = resizeGrid(grid, width, height, newWidth, newHeight)[2]
  /\ height' = resizeGrid(grid, width, height, newWidth, newHeight)[3]
  /\ uiLog' = <<>>
  /\ posted' = 0
  /\ UNCHANGED <<generationCount, statVars, isRunning, simulationSpeed, timeoutId,
                 isCalculating, timers, inFlight, applied>>

\* The validation and resize of handleSizeChange with the two inputs reading
\* inW and inH: the new <<grid, width, height>>.  An input outside min..max is
\* replaced by the current size; the resize happens if either size changed.
sizeChange(inW, inH, g, w, h) ==
  LET widthOk == ~(inW < UiMinDim \/ inW > MaxCells)
      heightOk == ~(inH < UiMinDim \/ inH > MaxCells)
      newWidth == IF widthOk THEN inW ELSE w
      newHeight == IF heightOk THEN inH ELSE h
      widthChanged == widthOk /\ newWidth # w
      heightChanged == heightOk /\ newHeight # h
  IN  IF widthChanged \/ heightChanged
        THEN resizeGrid(g, w, h, newWidth, newHeight)
        ELSE <<g, w, h>>

\* uiController.handleSizeChange with the two inputs reading inW and inH:
\* pause, validate, resize, start again if it was running.
HandleSizeChange(inW, inH) ==
  LET wasRunning == isRunning
      p == pauseGame(isRunning, timeoutId, timers)
      r == sizeChange(inW, inH, grid, width, height)
  IN  /\ <<r[2], r[3]>> \in Shapes(MaxCells)
      /\ lastOp' = "handleSizeChange"
      /\ grid' = r[1]
      /\ width' = r[2]
      /\ height' = r[3]
      /\ timeoutId' = p[2]
      /\ timers' = p[3]
      /\ IF wasRunning
           THEN startGame(p[1], p[2], isCalculating, r[1], r[2], r[3])
           ELSE /\ isRunning' = p[1]
                /\ posted' = 0
                /\ UNCHANGED <<isCalculating, inFlight>>
      /\ uiLog' = <<>>
      /\ UNCHANGED <<generationCount, statVars, simulationSpeed, applied>>

\* gridState.setCellState, as the painter calls it.
SetCellState(x, y, age) ==
  /\ lastOp' = "setCellState"
  /\ grid' = setCellState(grid, x, y, age)
  /\ uiLog' = <<>>
  /\ posted' = 0
  /\ UNCHANGED <<width, height, generationCount, statVars, isRunning, simulationSpeed,
                 timeoutId, isCalculating, timers, inFlight, applied>>

\* Mutant: a timer that fired stays pending.
TimerFires_Stays ==
  /\ lastOp' = "timer"
  /\ \E t \in timers : timers' = timers
  /\ requestNextStep(isRunning, timeoutId, isCalculating, grid, width, height)
  /\ uiLog' = <<>>
  /\ UNCHANGED <<gridVars, statVars, isRunning, simulationSpeed, timeoutId, applied>>

\* A pending timer fires: requestNextStep runs.
TimerFires ==
  /\ lastOp' = "timer"
  /\ \E t \in timers : timers' = timers \ {t}
  /\ requestNextStep(isRunning, timeoutId, isCalculating, grid, width, height)
  /\ uiLog' = <<>>
  /\ UNCHANGED <<gridVars, statVars, isRunning, simulationSpeed, timeoutId, applied>>

\* Mutant: the next step is scheduled whether or not the simulation is running.
scheduleNext_Always(running, tid, tm, speed) ==
  LET id == newTimeoutId(clearTimeout(tm, tid), tid)
  IN  <<id, clearTimeout(tm, tid) \cup {[id |-> id, delay |-> speed]}>>

\* Mutant: no timer is ever armed.
scheduleNext_Never(running, tid, tm, speed) == <<NoTimeout, tm>>

\* The end of worker.onmessage: the new <<timeoutId, timers>>.  While running,
\* the timer the variable names is cleared and a new one armed with the speed.
scheduleNext(running, tid, tm, speed) ==
  IF running
    THEN LET id == newTimeoutId(clearTimeout(tm, tid), tid)
         IN  <<id, clearTimeout(tm, tid) \cup {[id |-> id, delay |-> speed]}>>
    ELSE <<NoTimeout, tm>>

\* The body of worker.onmessage for the event data e = {nextGrid, stats}.
onmessage(e) ==
  /\ grid' = updateGrid(e.nextGrid, generationCount)[1]
  /\ generationCount' = updateGrid(e.nextGrid, generationCount)[2]
  /\ applied' = applied + 1
  /\ historicOldestAge' = newHistoricOldestAge(historicOldestAge, e.stats)
  /\ totalBornCount' = newTotalBornCount(totalBornCount, e.stats)
  /\ totalDiedCount' = newTotalDiedCount(totalDiedCount, e.stats)
  /\ uiLog' = <<stepStats(e.stats, totalBornCount', totalDiedCount', historicOldestAge',
                          generationCount', grid', width, height)>>
  /\ isCalculating' = FALSE
  /\ timeoutId' = scheduleNext(isRunning, timeoutId, timers, simulationSpeed)[1]
  /\ timers' = scheduleNext(isRunning, timeoutId, timers, simulationSpeed)[2]
  /\ posted' = 0
  /\ UNCHANGED <<width, height, isRunning, simulationSpeed>>

\* isCalculating as updateUICallback finds it inside worker.onmessage, given
\* the flag as it was when the result arrived: the callback is called before
\* the statement that clears the flag.
calculatingAtCallback(calculating) == calculating

\* runStep called from inside that callback goes on to requestNextStep only
\* when the simulation is paused and the flag, as the callback finds it, is
\* clear.
runStepInCallbackAccepted(running, calculating) ==
  ~running /\ ~calculatingAtCallback(calculating)

\* worker.onmessage: the answer to the oldest request is a result.
OnMessage ==
  /\ lastOp' = "onmessage"
  /\ inFlight # <<>>
  /\ inFlight' = Tail(inFlight)
  /\ onmessage(Result(Head(inFlight)))

\* Mutant: a worker error also zeroes the cumulative statistics.
OnError_ResetsStats ==
  /\ lastOp' = "onerror"
  /\ inFlight # <<>>
  /\ inFlight' = Tail(inFlight)
  /\ DoPauseGame
  /\ historicOldestAge' = 0
  /\ totalBornCount' = 0
  /\ totalDiedCount' = 0
  /\ uiLog' = <<>>
  /\ posted' = 0
  /\ UNCHANGED <<gridVars, simulationSpeed, isCalculating, applied>>

\* Mutant: a worker error also clears isCalculating.
OnError_ClearsFlag ==
  /\ lastOp' = "onerror"
  /\ inFlight # <<>>
  /\ inFlight' = Tail(inFlight)
  /\ DoPauseGame
  /\ isCalculating' = FALSE
  /\ uiLog' = <<>>
  /\ posted' = 0
  /\ UNCHANGED <<gridVars, statVars, simulationSpeed, applied>>

\* worker.onerror: the answer to the oldest request is an error.
OnError ==
  /\ lastOp' = "onerror"
  /\ inFlight # <<>>
  /\ inFlight' = Tail(inFlight)
  /\ DoPauseGame
  /\ uiLog' = <<>>
  /\ posted' = 0
  /\ UNCHANGED <<gridVars, statVars, simulationSpeed, isCalculating, applied>>

\* ---------------------------------------------------------- specifications

\* The inputs of the handlers.
SpeedInputs == {-1, DEFAULT_SPEED}
SizeInputs == 0..(MaxCells + 1)
\* The cells some shape of the model has, and places outside every one.
CoordInputs ==
  {c \in (0..(MaxCells - 1)) \X (0..(MaxCells - 1)) : (c[1] + 1) * (c[2] + 1) <= MaxCells}
    \cup {<<-1, 0>>, <<0, MaxCells>>}
PaintAges == {0, 1}

\* The controller's module-level state, and the history, at load time.
ControllerInit ==
  /\ isRunning = FALSE
  /\ simulationSpeed = DEFAULT_SPEED
  /\ timeoutId = NoTimeout
  /\ historicOldestAge = 0
  /\ totalBornCount = 0
  /\ totalDiedCount = 0
  /\ isCalculating = FALSE
  /\ timers = {}
  /\ inFlight = <<>>
  /\ lastOp = "initializeGrid"
  /\ uiLog = <<>>
  /\ posted = 0
  /\ applied = 0

\* After initializeGrid(w, h): a random grid of ages 0 and 1, generation 0.
Init ==
  /\ \E s \in Shapes(MaxCells) :
       /\ width = s[1]
       /\ height = s[2]
       /\ grid \in createdGrids(s[1], s[2])
  /\ generationCount = 0
  /\ ControllerInit

Next ==
  \/ StartGame
  \/ PauseGame
  \/ ToggleSimulation
  \/ RunStep
  \/ \E newSpeed \in SpeedInputs : SetSimulationSpeed(newSpeed)
  \/ HandleClearGrid
  \/ HandleResetGrid
  \/ \E s \in Shapes(MaxCells) : ResizeGrid(s[1], s[2])
  \/ \E inW, inH \in SizeInputs : HandleSizeChange(inW, inH)
  \/ \E c \in CoordInputs, age \in PaintAges : SetCellState(c[1], c[2], age)
  \/ TimerFires
  \/ OnMessage
  \/ OnError

Spec == Init /\ [][Next]_vars

\* The stepping loop on larger grids, without edits, resizes, speed changes and
\* worker errors: births happen from three cells on.
InitLoop ==
  /\ \E s \in Shapes(LoopMaxCells) :
       /\ width = s[1]
       /\ height = s[2]
       /\ grid \in createdGrids(s[1], s[2])
  /\ generationCount = 0
  /\ ControllerInit

NextLoop ==
  \/ StartGame
  \/ PauseGame
  \/ RunStep
  \/ HandleClearGrid
  \/ HandleResetGrid
  \/ TimerFires
  \/ OnMessage

SpecLoop == InitLoop /\ [][NextLoop]_vars

\* The transition engine on its own.  A manual step carried through: runStep
\* posts the stored grid, the worker computes, worker.onmessage applies the
\* result, and nothing happens in between.
EngineStep ==
  /\ lastOp' = "onmessage"
  /\ ~isRunning
  /\ ~isCalculating
  /\ inFlight = <<>>
  /\ generationCount < EngMaxSteps
  /\ inFlight' = inFlight
  /\ onmessage(Result(Request(grid, width, height)))

InitEngine ==
  /\ \E s \in Shapes(EngMaxCells) :
       /\ width = s[1]
       /\ height = s[2]
       /\ grid \in GridsOf(s[1], s[2], 0..EngMaxAge)
  /\ generationCount = 0
  /\ ControllerInit

NextEngine == EngineStep

SpecEngine == InitEngine /\ [][NextEngine]_vars

\* The resize operator on its own: from a grid whose cells all differ, or whose
\* cells are all alive with age 1, through any sequence of resizes.
labelledGrid(w, h) == [y \in 0..(h - 1) |-> [x \in 0..(w - 1) |-> 1 + x + y * w]]
aliveGrid(w, h) == [y \in 0..(h - 1) |-> [x \in 0..(w - 1) |-> 1]]

InitResize ==
  /\ \E w, h \in 1..ResizeMaxDim :
       /\ width = w
       /\ height = h
       /\ grid \in {labelledGrid(w, h), aliveGrid(w, h)}
  /\ generationCount = 0
  /\ ControllerInit

NextResize == \E newWidth, newHeight \in 1..ResizeMaxDim : ResizeGrid(newWidth, newHeight)

SpecResize == InitResize /\ [][NextResize]_vars

\* The engine stepping a grid drawn with a 2x2 block of cells of age 1 whose
\* corner is (x0, y0), the block wrapping round the edges, all else dead.
blockCells(w, h, x0, y0) == {x0, (x0 + 1) % w} \X {y0, (y0 + 1) % h}

blockGrid(w, h, x0, y0) ==
  [y \in 0..(h - 1) |-> [x \in 0..(w - 1) |->
     IF <<x, y>> \in blockCells(w, h, x0, y0) THEN 1 ELSE 0]]

InitBlock ==
  /\ \E w, h \in 2..BlockMaxDim :
       /\ width = w
       /\ height = h
       /\ \E x0 \in 0..(w - 1), y0 \in 0..(h - 1) : grid = blockGrid(w, h, x0, y0)
  /\ generationCount = 0
  /\ ControllerInit

NextBlock == EngineStep

SpecBlock == InitBlock /\ [][NextBlock]_vars

\* The run loop left to itself: the simulation is started and the speed may be
\* changed, nobody pauses, clears or resets and the worker does not fail.  The
\* event loop runs a timer that is due and delivers a message that was sent.
NextRun ==
  \/ StartGame
  \/ \E newSpeed \in SpeedInputs : SetSimulationSpeed(newSpeed)
  \/ TimerFires
  \/ OnMessage

\* Weak fairness of OnMessage, written out: OnMessage is enabled exactly when
\* a request is outstanding, and every step of it changes inFlight.
FairOnMessage == []<>(inFlight = <<>>) \/ []<><<OnMessage>>_vars

SpecRun ==
  /\ InitLoop
  /\ [][NextRun]_vars
  /\ WF_vars(TimerFires)
  /\ FairOnMessage

\* The controller alone: start, pause, step, the timer and the worker's
\* answers, with no edit of the grid store between them.
NextNoEdit ==
  \/ StartGame
  \/ PauseGame
  \/ ToggleSimulation
  \/ RunStep
  \/ TimerFires
  \/ OnMessage
  \/ OnError

SpecNoEdit == Init /\ [][NextNoEdit]_vars

\* ------------------------------------------------------------------ claims

Handlers(S) == lastOp' \in S

\* C1: at most one computation posted to the worker is outstanding at any time.
\* startGame clears isCalculating and posts, whatever is still outstanding.
C1_SingleFlight == Outstanding <= 1

\* C2: a result that arrives while the simulation is paused is applied exactly
\* once (the request leaves the queue, the grid is replaced, the generation
\* grows by one, the cumulative statistics take the step's statistics, the
\* callback runs once); afterwards no timer is pending, and while paused a
\* computation is posted only by startGame, toggleSimulation or runStep.
C2_ResultAfterPause ==
  [][/\ (~isRunning /\ Handlers({"onmessage"})) =>
          /\ inFlight # <<>>
          /\ inFlight' = Tail(inFlight)
          /\ grid' = Result(Head(inFlight)).nextGrid
          /\ generationCount' = generationCount + 1
          /\ totalBornCount' = totalBornCount + Result(Head(inFlight)).stats.born
          /\ totalDiedCount' = totalDiedCount + Result(Head(inFlight)).stats.died
          /\ historicOldestAge' = Max(historicOldestAge, Result(Head(inFlight)).stats.oldest)
          /\ Len(uiLog') = 1
          /\ posted' = 0
          /\ ~isRunning'
          /\ timers' = {}
          /\ timeoutId' = NoTimeout
     /\ (~isRunning' => timers' = {})
     /\ (~isRunning /\ posted' > 0) =>
          Handlers({"startGame", "toggleSimulation", "runStep"})
    ]_vars

\* A result has just been applied while paused.
C2_Witness ==
  /\ lastOp = "onmessage"
  /\ ~isRunning
  /\ generationCount >= 1
  /\ Len(uiLog) = 1
  /\ timers = {}

\* C3: the stored grid has exactly height rows of exactly width cells.  A
\* result computed before a resize is stored after it with the old shape.
C3_GridShape == WellFormed(grid, width, height)

\* C4: the generation counter is the number of results applied since the last
\* initialize or reset: an applied result adds exactly 1, reset sets it to 0,
\* and no other handler changes it.
C4_Generation ==
  /\ [](generationCount = applied)
  /\ [][generationCount' =
          IF Handlers({"onmessage"}) THEN generationCount + 1
          ELSE IF Handlers({"handleResetGrid"}) THEN 0
          ELSE generationCount]_vars

\* Two results applied, then a clear that left the counter alone.
C4_Witness ==
  /\ lastOp = "handleClearGrid"
  /\ generationCount = 2

\* The alive cells among the eight wrapped neighbours of (x, y), as a set of
\* offsets: what the rule of the game calls the neighbour count.
AliveOffsets(g, w, h, x, y) ==
  {o \in ((-1..1) \X (-1..1)) \ {<<0, 0>>} :
     g[(y + o[2] + h) % h][(x + o[1] + w) % w] > 0}

\* The rule of the game on ages.
RuleAge(age, n) ==
  IF age > 0
    THEN (IF n = 2 \/ n = 3 THEN age + 1 ELSE 0)
    ELSE (IF n = 3 THEN 1 ELSE 0)

\* C5: computeNextGeneration gives each cell the age of the rule (alive with 2
\* or 3 alive neighbours: age + 1; alive otherwise: 0; dead with exactly 3: 1;
\* dead otherwise: 0) and the result has the width and height of the input.
C5_NextAges ==
  [][Handlers({"onmessage"}) =>
       /\ computeNextGeneration(grid, width, height).nextGrid = grid'
       /\ WellFormed(grid', width, height)
       /\ \A c \in Cells(width, height) :
            grid'[c[2]][c[1]] =
              RuleAge(grid[c[2]][c[1]],
                      Cardinality(AliveOffsets(grid, width, height, c[1], c[2])))
    ]_vars

\* A step after which a cell was born next to a survivor of age 3 and a cell
\* that died.
C5_Witness ==
  /\ lastOp = "onmessage"
  /\ generationCount = 2
  /\ \E c \in Cells(width, height) : grid[c[2]][c[1]] = 3
  /\ uiLog[1].born > 0
  /\ uiLog[1].died > 0

\* C6: the statistics computeNextGeneration returns: born counts the cells dead
\* in the input and alive in the output, died the cells alive in the input and
\* dead in the output, oldest is the greatest age among the alive cells of the
\* output, 0 when there is none.
C6_StepStats ==
  [][Handlers({"onmessage"}) =>
       LET st == computeNextGeneration(grid, width, height).stats
           out == computeNextGeneration(grid, width, height).nextGrid
           dead(g) == {c \in Cells(width, height) : g[c[2]][c[1]] = 0}
           alive(g) == {c \in Cells(width, height) : g[c[2]][c[1]] > 0}
       IN  /\ st.born = Cardinality(dead(grid) \cap alive(out))
           /\ st.died = Cardinality(alive(grid) \cap dead(out))
           /\ st.oldest = MaxOver({out[c[2]][c[1]] : c \in alive(out)})
           /\ alive(out) = {} => st.oldest = 0
           /\ uiLog'[1].born = st.born
           /\ uiLog'[1].died = st.died
           /\ uiLog'[1].oldestCurrent = st.oldest
    ]_vars

\* A step with births, deaths and a survivor older than the newborn.
C6_Witness ==
  /\ lastOp = "onmessage"
  /\ uiLog[1].born > 1
  /\ uiLog[1].died > 1
  /\ uiLog[1].oldestCurrent > 1

\* C7: the neighbour count of every cell is the number of the eight offsets
\* whose wrapped target is alive, each offset counted on its own; the
\* neighbours of (0, 0) include (W-1, 0), (0, H-1) and (W-1, H-1); the cell of
\* a 1x1 grid is its own neighbour eight times.
C7_Toroidal ==
  /\ \A c \in Cells(width, height) :
       countNeighbors(c[1], c[2], width, height, grid) =
         Cardinality(AliveOffsets(grid, width, height, c[1], c[2]))
  /\ \A c \in {<<width - 1, 0>>, <<0, height - 1>>, <<width - 1, height - 1>>} :
       grid[c[2]][c[1]] > 0 => countNeighbors(0, 0, width, height, grid) >= 1
  /\ (width = 1 /\ height = 1) =>
       countNeighbors(0, 0, width, height, grid) = (IF grid[0][0] > 0 THEN 8 ELSE 0)
  /\ (width = 1 /\ height = 1 /\ lastOp = "onmessage") => grid[0][0] = 0

\* The alive cell of a 1x1 grid died of its eight neighbours.
C7_Witness ==
  /\ lastOp = "onmessage"
  /\ width = 1
  /\ height = 1
  /\ generationCount = 1
  /\ uiLog[1].died = 1

\* The offset of the claim along one axis.
ClaimOffset(newSize, oldSize) ==
  LET delta == newSize - oldSize
  IN  IF delta % 2 = 1 /\ oldSize % 2 = 0
        THEN (delta + 1) \div 2
        ELSE delta \div 2

\* C8: a resize to other dimensions moves every old cell by the centring offset
\* (the ceiling of half the difference when the difference is odd and the old
\* size even, else the floor, negative differences included); an old cell whose
\* image is inside the new bounds keeps its age there, every other new cell is
\* dead.  A 4x4 grid of alive cells resized to 6x6 fills exactly (1,1)-(4,4).
C8_Resize ==
  [][(Handlers({"resizeGrid"}) /\ <<width', height'>> # <<width, height>>) =>
       LET offX == ClaimOffset(width', width)
           offY == ClaimOffset(height', height)
       IN  /\ WellFormed(grid', width', height')
           /\ \A c \in Cells(width', height') :
                grid'[c[2]][c[1]] =
                  IF <<c[1] - offX, c[2] - offY>> \in Cells(width, height)
                    THEN grid[c[2] - offY][c[1] - offX]
                    ELSE 0
           /\ \A c \in Cells(width, height) :
                <<c[1] + offX, c[2] + offY>> \in Cells(width', height') =>
                  grid'[c[2] + offY][c[1] + offX] = grid[c[2]][c[1]]
           /\ (width = 4 /\ height = 4 /\ grid = aliveGrid(4, 4)
                 /\ width' = 6 /\ height' = 6) =>
                grid' = [y \in 0..5 |-> [x \in 0..5 |->
                           IF x \in 1..4 /\ y \in 1..4 THEN 1 ELSE 0]]
    ]_vars

\* The 4x4 block of alive cells, centred in a 6x6 grid by a resize.
C8_Witness ==
  /\ lastOp = "resizeGrid"
  /\ width = 6
  /\ height = 6
  /\ grid = [y \in 0..5 |-> [x \in 0..5 |-> IF x \in 1..4 /\ y \in 1..4 THEN 1 ELSE 0]]

\* C9: an applied result adds its births and deaths to the totals and raises
\* the historic oldest age to the step's oldest age if that is greater; no
\* handler other than clear and reset lowers any of the three.
C9_Aggregator ==
  [][/\ Handlers({"onmessage"}) =>
          /\ inFlight # <<>>
          /\ totalBornCount' = totalBornCount + Result(Head(inFlight)).stats.born
          /\ totalDiedCount' = totalDiedCount + Result(Head(inFlight)).stats.died
          /\ historicOldestAge' =
               Max(historicOldestAge, Result(Head(inFlight)).stats.oldest)
     /\ ~Handlers({"handleClearGrid", "handleResetGrid"}) =>
          /\ totalBornCount' >= totalBornCount
          /\ totalDiedCount' >= totalDiedCount
          /\ historicOldestAge' >= historicOldestAge
    ]_vars

\* Two results applied, with births and deaths, the totals above those of the
\* last step.
C9_Witness ==
  /\ lastOp = "onmessage"
  /\ generationCount = 2
  /\ totalBornCount > uiLog[1].born
  /\ uiLog[1].born > 0
  /\ totalDiedCount > 0
  /\ historicOldestAge > uiLog[1].oldestCurrent

\* C10: clear and reset set the cumulative statistics to zero; every other
\* handler but the application of a result (resize, setCell, start, pause,
\* toggle, setSpeed, a manual step, a timer, a worker error) leaves all three
\* as they are.
C10_ResetBoundary ==
  [][/\ Handlers({"handleClearGrid", "handleResetGrid"}) =>
          /\ totalBornCount' = 0
          /\ totalDiedCount' = 0
          /\ historicOldestAge' = 0
     /\ ~Handlers({"handleClearGrid", "handleResetGrid", "onmessage"}) =>
          UNCHANGED statVars
     /\ (Handlers({"onmessage"}) /\ statVars' # statVars) =>
          \/ totalBornCount' > totalBornCount
          \/ totalDiedCount' > totalDiedCount
          \/ historicOldestAge' > historicOldestAge
    ]_vars

\* A resize after statistics have accumulated: they are still there.
C10_Witness ==
  /\ lastOp = "resizeGrid"
  /\ totalDiedCount > 0
  /\ historicOldestAge > 0

\* What a handler that does nothing to the controller and the grid store
\* leaves alone: everything but the history of the last handler.
NoEffect ==
  /\ posted' = 0
  /\ uiLog' = <<>>
  /\ UNCHANGED <<gridVars, statVars, isRunning, simulationSpeed, timeoutId,
                 isCalculating, timers, inFlight, applied>>

\* C11: runStep called while the simulation is running does nothing: nothing
\* is posted, and the running flag, the calculating flag, the pending timer,
\* the grid, the generation and the statistics stay as they are.
C11_StepWhileRunning ==
  [][(Handlers({"runStep"}) /\ isRunning) => NoEffect]_vars

\* runStep was called while running with a timer pending, which is still there.
C11_Witness ==
  /\ lastOp = "runStep"
  /\ isRunning
  /\ ~isCalculating
  /\ timers # {}

\* C12: runStep called while a posted computation has not returned does
\* nothing.  The guard of runStep is the flag isCalculating, which a result
\* clears while another computation is still outstanding.
C12_StepWhileOutstanding ==
  [][(Handlers({"runStep"}) /\ Outstanding > 0) => NoEffect]_vars

\* C13: the UI callback is called exactly once by each applied result, each
\* clear and each reset, and by no other handler; the record carries the
\* generation of the grid store and the cumulative statistics of the
\* controller as they are at that moment.
C13_Notifications ==
  [][IF Handlers({"onmessage", "handleClearGrid", "handleResetGrid"})
       THEN /\ Len(uiLog') = 1
            /\ uiLog'[1].generation = generationCount'
            /\ uiLog'[1].totalBorn = totalBornCount'
            /\ uiLog'[1].totalDied = totalDiedCount'
            /\ uiLog'[1].oldestHistoric = historicOldestAge'
       ELSE uiLog' = <<>>
    ]_vars

\* The second result applied, notified with generation 2 and a death counted.
C13_Witness ==
  /\ lastOp = "onmessage"
  /\ Len(uiLog) = 1
  /\ uiLog[1].generation = 2
  /\ uiLog[1].totalDied > 0

\* C14: a worker error leaves the simulation paused with no timer pending, the
\* grid, the generation and the cumulative statistics as they were, and posts
\* nothing; the request that failed is not posted again; while paused only
\* startGame, toggleSimulation and runStep post a computation.
C14_WorkerFault ==
  [][/\ Handlers({"onerror"}) =>
          /\ ~isRunning'
          /\ timers' = {}
          /\ timeoutId' = NoTimeout
          /\ posted' = 0
          /\ inFlight' = Tail(inFlight)
          /\ UNCHANGED <<gridVars, statVars>>
     /\ (~isRunning /\ Len(inFlight') > Len(inFlight)) =>
          Handlers({"startGame", "toggleSimulation", "runStep"})
    ]_vars

\* A worker error after a result was applied: paused, the statistics kept.
C14_Witness ==
  /\ lastOp = "onerror"
  /\ ~isRunning
  /\ timers = {}
  /\ generationCount = 1
  /\ totalDiedCount > 0

\* C15: a worker error is made known to the UI callback.  worker.onerror logs
\* to the console and pauses; it does not call the callback.
C15_FaultSurfaced ==
  [][Handlers({"onerror"}) => Len(uiLog') >= 1]_vars

\* C16: setCellState on a place outside width x height changes nothing; on a
\* cell inside it gives that cell the age and leaves every other cell, the
\* generation, the statistics and the controller alone.  setCellState tests
\* whether the stored arrays hold the cell, not the dimensions, and a result
\* stored after a resize leaves arrays of another shape than width x height.
C16_SetCell ==
  /\ [](\A x, y \in -1..MaxCells, age \in PaintAges :
          LET after == setCellState(grid, x, y, age)
          IN  IF <<x, y>> \in Cells(width, height)
                THEN /\ CellAt(after, x, y) = age
                     /\ DOMAIN after = DOMAIN grid
                     /\ \A yy \in DOMAIN grid :
                          /\ DOMAIN after[yy] = DOMAIN grid[yy]
                          /\ \A xx \in DOMAIN grid[yy] :
                               <<xx, yy>> # <<x, y>> => after[yy][xx] = grid[yy][xx]
                ELSE after = grid)
  /\ [][Handlers({"setCellState"}) =>
          /\ posted' = 0
          /\ uiLog' = <<>>
          /\ UNCHANGED <<width, height, generationCount, statVars, isRunning,
                         simulationSpeed, timeoutId, isCalculating, timers,
                         inFlight, applied>>
          /\ \E c \in CoordInputs, age \in PaintAges :
               grid' = setCellState(grid, c[1], c[2], age)
       ]_vars

\* C17: a size change with a width or height of zero or less is rejected as a
\* whole, dimensions and grid staying as they were, and width and height are
\* positive in every state.  handleSizeChange replaces only the invalid input
\* by the current size and still resizes along the other axis.
C17_InvalidDimension ==
  /\ width > 0
  /\ height > 0
  /\ \A inW, inH \in SizeInputs :
       (inW <= 0 \/ inH <= 0) =>
         sizeChange(inW, inH, grid, width, height) = <<grid, width, height>>

\* C18: after handleClearGrid every cell of the width x height grid has age 0,
\* width, height, speed and generation are unchanged, the simulation is paused
\* with no timer pending, and the callback got one record of zeros with the
\* unchanged generation.  clearGrid sets the cells the stored arrays hold
\* inside width x height, which after a result stored across a resize are not
\* the cells of the width x height grid.
C18_AfterClear ==
  [][Handlers({"handleClearGrid"}) =>
       /\ grid' = [y \in 0..(height - 1) |-> [x \in 0..(width - 1) |-> 0]]
       /\ UNCHANGED <<width, height, simulationSpeed, generationCount>>
       /\ ~isRunning'
       /\ timers' = {}
       /\ timeoutId' = NoTimeout
       /\ Len(uiLog') = 1
       /\ uiLog'[1].born = 0
       /\ uiLog'[1].died = 0
       /\ uiLog'[1].totalBorn = 0
       /\ uiLog'[1].totalDied = 0
       /\ uiLog'[1].oldestCurrent = 0
       /\ uiLog'[1].oldestHistoric = 0
       /\ uiLog'[1].generation = generationCount
    ]_vars

\* C19: after handleResetGrid the grid has the width and height it had, every
\* cell has age 0 or 1, the generation and the cumulative statistics are 0, and
\* the simulation is paused with no timer pending.
C19_AfterReset ==
  [][Handlers({"handleResetGrid"}) =>
       /\ UNCHANGED <<width, height>>
       /\ WellFormed(grid', width, height)
       /\ AgesIn(grid') \subseteq {0, 1}
       /\ generationCount' = 0
       /\ totalBornCount' = 0
       /\ totalDiedCount' = 0
       /\ historicOldestAge' = 0
       /\ ~isRunning'
       /\ timers' = {}
       /\ timeoutId' = NoTimeout
    ]_vars

\* A reset that drew an alive and a dead cell while a computation posted
\* before it is still outstanding.
C19_Witness ==
  /\ lastOp = "handleResetGrid"
  /\ AgesIn(grid) = {0, 1}
  /\ inFlight # <<>>
  /\ generationCount = 0

\* C20: setSimulationSpeed stores the speed, never below 0, and changes
\* nothing else: the timers pending stay with the delay they were armed with,
\* the computations outstanding, the flags, the grid, the generation and the
\* statistics stay.  A timer is armed only when a result arrives, with the
\* speed stored at that moment.
C20_SetSpeed ==
  [][/\ Handlers({"setSimulationSpeed"}) =>
          /\ simulationSpeed' \in {Max(0, ms) : ms \in SpeedInputs}
          /\ simulationSpeed' >= 0
          /\ posted' = 0
          /\ UNCHANGED <<gridVars, statVars, isRunning, timeoutId, isCalculating,
                         timers, inFlight, applied>>
     /\ ~Handlers({"setSimulationSpeed"}) => UNCHANGED simulationSpeed
     /\ \A t \in timers' \ timers :
          /\ Handlers({"onmessage"})
          /\ t.delay = simulationSpeed
    ]_vars

\* The speed was set to 0 while a timer armed with the default delay is pending.
C20_Witness ==
  /\ lastOp = "setSimulationSpeed"
  /\ simulationSpeed = 0
  /\ \E t \in timers : t.delay = DEFAULT_SPEED

\* C21: startGame while running does nothing; startGame while paused sets
\* isRunning, clears the flag isCalculating and at once posts exactly one
\* computation, which carries the grid, width and height of that moment (the
\* flag is set again by the post).
C21_Start ==
  [][Handlers({"startGame"}) =>
       IF isRunning
         THEN NoEffect
         ELSE /\ isRunning'
              /\ posted' = 1
              /\ inFlight' = Append(inFlight, [grid |-> grid, width |-> width,
                                               height |-> height])
              /\ isCalculating'
              /\ uiLog' = <<>>
              /\ UNCHANGED <<gridVars, statVars, simulationSpeed, timeoutId,
                             timers, applied>>
    ]_vars

\* startGame posted while an earlier computation was still outstanding.
C21_Witness ==
  /\ lastOp = "startGame"
  /\ isRunning
  /\ Len(inFlight) = 2
  /\ posted = 1

\* C22: pauseGame while paused does nothing; pauseGame while running clears
\* the pending timer; whenever the simulation is not running no timer is
\* pending, and a timer that fires is one that was pending.
C22_Pause ==
  /\ [](~isRunning => (timers = {} /\ timeoutId = NoTimeout))
  /\ [][/\ Handlers({"pauseGame"}) =>
             IF ~isRunning
               THEN NoEffect
               ELSE /\ ~isRunning'
                    /\ timers' = {}
                    /\ timeoutId' = NoTimeout
                    /\ posted' = 0
                    /\ uiLog' = <<>>
                    /\ UNCHANGED <<gridVars, statVars, simulationSpeed,
                                   isCalculating, inFlight, applied>>
        /\ Handlers({"timer"}) => (isRunning /\ timers' \subseteq timers /\ timers' # timers)
       ]_vars

\* Paused after a result was applied, with nothing outstanding and no timer.
C22_Witness ==
  /\ lastOp = "pauseGame"
  /\ ~isRunning
  /\ generationCount = 1
  /\ ~isCalculating
  /\ inFlight = <<>>
  /\ timers = {}

\* C23: while the simulation runs undisturbed, a result applied arms a timer
\* with the speed of that moment; a pending timer leads to a new post and a
\* posted computation to an applied result, so the generation grows as far as
\* the bounds of the model let computations be posted.
C23_Progress ==
  /\ [][(Handlers({"onmessage"}) /\ isRunning) =>
          /\ timers' = {[id |-> timeoutId', delay |-> simulationSpeed]}
          /\ timeoutId' # NoTimeout
          /\ ~isCalculating'
       ]_vars
  /\ (isRunning /\ timers # {} /\ CanPost(grid)) ~> (lastOp = "timer" /\ posted = 1)
  /\ \A n \in 0..(MaxGen - 1) :
       (inFlight # <<>> /\ generationCount = n) ~> (generationCount = n + 1)
  /\ isRunning ~> (generationCount = MaxGen \/ MaxOver(AgesIn(grid)) >= MaxAge)

\* The loop ran on its own up to the last generation of the model.
C23_Witness ==
  /\ lastOp = "onmessage"
  /\ isRunning
  /\ generationCount = MaxGen
  /\ timers # {}
  /\ totalBornCount > 0

\* C24: while a posted computation has not returned nothing more is posted,
\* whatever the caller does; a computation that never returns blocks every
\* later post.  startGame after pauseGame clears the flag and posts.
C24_StuckBlocks ==
  [][Outstanding > 0 => (posted' = 0 /\ Len(inFlight') <= Len(inFlight))]_vars

\* The grid has exactly one alive cell, of age 1.
Isolated(g, w, h) ==
  /\ Cardinality({c \in Cells(w, h) : g[c[2]][c[1]] > 0}) = 1
  /\ AgesIn(g) = IF w * h = 1 THEN {1} ELSE {0, 1}

AllDead(g) == AgesIn(g) \subseteq {0}

\* C25 as stated: on a grid of any size one step from a single alive cell of
\* age 1 gives the all-dead grid with died = 1 and born = 0.  On a grid 1 wide
\* or 1 high (not 1x1) the cell is its own neighbour twice and survives.
C25_IsolatedDies_AnySize ==
  [][(Handlers({"onmessage"}) /\ Isolated(grid, width, height)) =>
       /\ AllDead(grid')
       /\ uiLog'[1].died = 1
       /\ uiLog'[1].born = 0
    ]_vars

\* C25 amended: on a grid at least 2 wide and 2 high, and on the 1x1 grid, one
\* step from a single alive cell of age 1 gives the all-dead grid of the same
\* shape with died = 1 and born = 0.
C25_IsolatedDies ==
  [][(/\ Handlers({"onmessage"})
      /\ Isolated(grid, width, height)
      /\ (width >= 2 /\ height >= 2) \/ (width = 1 /\ height = 1)) =>
       /\ AllDead(grid')
       /\ WellFormed(grid', width, height)
       /\ computeNextGeneration(grid, width, height).stats.died = 1
       /\ computeNextGeneration(grid, width, height).stats.born = 0
       /\ uiLog'[1].died = 1
       /\ uiLog'[1].born = 0
    ]_vars

\* The single alive cell of a 3x3 grid died.
C25_Witness ==
  /\ lastOp = "onmessage"
  /\ generationCount = 1
  /\ width = 3
  /\ height = 3
  /\ AllDead(grid)
  /\ uiLog[1].died = 1
  /\ uiLog[1].born = 0

\* The alive cells of the grid are exactly the four cells of a 2x2 block.
AliveCells(g, w, h) == {c \in Cells(w, h) : g[c[2]][c[1]] > 0}

IsBlock(g, w, h) ==
  /\ Cardinality(AliveCells(g, w, h)) = 4
  /\ \E c \in Cells(w, h) : AliveCells(g, w, h) = blockCells(w, h, c[1], c[2])

\* What a step does to a stable block: the same cells alive, each one
\* generation older, nothing born, nothing died, the oldest age above that of
\* the step before.
BlockStays ==
  /\ AliveCells(grid', width, height) = AliveCells(grid, width, height)
  /\ \A c \in AliveCells(grid, width, height) :
       grid'[c[2]][c[1]] = grid[c[2]][c[1]] + 1
  /\ uiLog'[1].born = 0
  /\ uiLog'[1].died = 0
  /\ uiLog'[1].oldestCurrent > MaxOver(AgesIn(grid))
  /\ uiLog # <<>> => uiLog'[1].oldestCurrent > uiLog[1].oldestCurrent

\* C26 as stated: on every grid that holds a 2x2 block as its only alive
\* cells, every step keeps the block.  On a grid 2 wide or 2 high the wrap
\* gives the cells of the block the same neighbour twice and the block dies.
C26_BlockStable_AnySize ==
  [][(Handlers({"onmessage"}) /\ IsBlock(grid, width, height)) => BlockStays]_vars

\* C26 amended: on every grid at least 3 wide and 3 high whose only alive
\* cells are a 2x2 block, every step leaves exactly those four cells alive,
\* each one older by 1, with born = 0, died = 0 and an oldest age above that of
\* the step before.
C26_BlockStable ==
  [][(/\ Handlers({"onmessage"})
      /\ IsBlock(grid, width, height)
      /\ width >= 3
      /\ height >= 3) => BlockStays]_vars

\* A block after two steps, its cells of age 3.
C26_Witness ==
  /\ lastOp = "onmessage"
  /\ generationCount = 2
  /\ IsBlock(grid, width, height)
  /\ AgesIn(grid) = {0, 3}
  /\ uiLog[1].oldestCurrent = 3

\* The all-dead grid of a shape.
DeadGrid(w, h) == [y \in 0..(h - 1) |-> [x \in 0..(w - 1) |-> 0]]

\* C27: computeNextGeneration on an all-dead grid of any shape returns the
\* all-dead grid with born = 0, died = 0, oldest = 0; once the stored grid and
\* every request outstanding are all dead, every step but a setCell or a reset
\* keeps them so, and an applied result leaves the cumulative statistics as
\* they are.
C27_AllDead ==
  /\ [](\A s \in Shapes(LoopMaxCells) :
          computeNextGeneration(DeadGrid(s[1], s[2]), s[1], s[2]) =
            [nextGrid |-> DeadGrid(s[1], s[2]),
             stats |-> [born |-> 0, died |-> 0, oldest |-> 0]])
  /\ [][(/\ AllDead(grid)
         /\ \A i \in 1..Len(inFlight) : AllDead(inFlight[i].grid)
         /\ ~Handlers({"setCellState", "handleResetGrid"})) =>
          /\ AllDead(grid')
          /\ \A i \in 1..Len(inFlight') : AllDead(inFlight'[i].grid)
          /\ Handlers({"onmessage"}) =>
               /\ UNCHANGED statVars
               /\ uiLog'[1].born = 0
               /\ uiLog'[1].died = 0
               /\ uiLog'[1].oldestCurrent = 0
       ]_vars

\* A step applied to an all-dead grid, the deaths counted before still there.
C27_Witness ==
  /\ lastOp = "onmessage"
  /\ generationCount = 2
  /\ AllDead(grid)
  /\ uiLog[1].died = 0
  /\ uiLog[1].born = 0
  /\ totalDiedCount > 0
  /\ width * height >= 3

\* C28: the flag isCalculating is true exactly while a posted computation has
\* neither returned its result nor failed.  A worker error leaves the flag
\* set, and startGame clears it while a computation is outstanding.
C28_FlagExact == isCalculating <=> (Outstanding > 0)

\* C29: setCellState on a cell inside width x height gives the stored grid
\* that age at once, in every state of the scheduler, running or paused, with
\* or without a computation outstanding, and touches nothing of the scheduler;
\* a result applied later replaces the whole grid with what was computed from
\* the request, the edit gone.  A result stored after a resize leaves arrays
\* of another shape than width x height, and a cell inside the dimensions that
\* the arrays do not hold cannot be painted.
C29_PaintNotBlocked ==
  /\ [](\A c \in Cells(width, height), age \in PaintAges :
          CellAt(setCellState(grid, c[1], c[2], age), c[1], c[2]) = age)
  /\ [][Handlers({"setCellState"}) =>
          UNCHANGED <<isRunning, isCalculating, inFlight, timers, timeoutId>>
       ]_vars
  /\ [][Handlers({"onmessage"}) =>
          grid' = computeNextGeneration(Head(inFlight).grid, Head(inFlight).width,
                                        Head(inFlight).height).nextGrid
       ]_vars

C31_OneRulePerGeneration ==
  [][Handlers({"onmessage"}) =>
       /\ generationCount' = generationCount + 1
       /\ grid' = computeNextGeneration(grid, width, height).nextGrid
    ]_vars

\* C32: when the observer is notified of an applied step the flag
\* isCalculating is already false, so that a runStep called from inside the
\* notification while paused is accepted.  worker.onmessage calls the callback
\* first and clears the flag after it.
C32_CompletionOrder ==
  [][Handlers({"onmessage"}) =>
       /\ Len(uiLog') = 1
       /\ ~calculatingAtCallback(isCalculating)
       /\ ~isRunning => runStepInCallbackAccepted(isRunning, isCalculating)
    ]_vars

\* C33: at most one timer is pending, a timer is pending only while the
\* simulation is running and isCalculating is false, and a timer that fires
\* finds the flag false and posts a request.
C33_NoBacklog ==
  /\ [](/\ Cardinality(timers) <= 1
        /\ timers # {} => (isRunning /\ ~isCalculating))
  /\ [][Handlers({"timer"}) => (~isCalculating /\ posted' = 1)]_vars

\* The timer armed by an applied result has fired and posted the next request.
C33_Witness ==
  /\ lastOp = "timer"
  /\ posted = 1
  /\ applied >= 1
  /\ isRunning
  /\ isCalculating
  /\ timers = {}

\* C34: a result that arrives right after handleClearGrid or handleResetGrid
\* belongs to a computation posted before it (neither posts), and leaves the
\* grid, the generation and the cumulative statistics as the clear or reset
\* left them.  Neither handler withdraws the outstanding request, and
\* worker.onmessage applies whatever arrives.
C34_NoStaleResultAfterClear ==
  [][(lastOp \in {"handleClearGrid", "handleResetGrid"} /\ Handlers({"onmessage"})) =>
       UNCHANGED <<grid, generationCount, statVars>>
    ]_vars

\* The flag is set and no computation is outstanding.
FlagStuck == isCalculating /\ inFlight = <<>>

\* C35: a worker error leaves isCalculating as it was and the simulation
\* paused; when the failed computation was the only one outstanding the flag
\* stays true with nothing to clear it, and from then on every runStep is
\* rejected and nothing is posted, until a step that calls startGame, which
\* posts again; the flag falls only when a result arrives.
C35_FaultBlocksStep ==
  /\ [](FlagStuck => (~isRunning /\ timers = {}))
  /\ [][/\ Handlers({"onerror"}) =>
             /\ isCalculating' = isCalculating
             /\ ~isRunning'
             /\ (isCalculating /\ Len(inFlight) = 1) => FlagStuck'
        /\ (isCalculating /\ Handlers({"runStep"})) =>
             (posted' = 0 /\ UNCHANGED <<inFlight, isCalculating>>)
        /\ (isCalculating /\ ~isCalculating') => Handlers({"onmessage"})
        /\ FlagStuck =>
             \/ FlagStuck' /\ posted' = 0
             \/ /\ Handlers({"startGame", "toggleSimulation"})
                /\ posted' = 1
                /\ isRunning'
                /\ isCalculating'
       ]_vars

\* runStep was rejected after a worker error left the flag set.
C35_Witness ==
  /\ lastOp = "runStep"
  /\ FlagStuck
  /\ posted = 0
  /\ ~isRunning

\* C36: for the stored grid and the step computeNextGeneration makes of it,
\* the alive cells of the output number those of the input plus born minus
\* died, and born plus died is at most width * height; the step applied and
\* reported keeps the same balance.
C36_Conservation ==
  /\ [](LET r == computeNextGeneration(grid, width, height)
        IN  /\ aliveCount(r.nextGrid, width, height) =
                 aliveCount(grid, width, height) + r.stats.born - r.stats.died
            /\ r.stats.born + r.stats.died <= width * height)
  /\ [][Handlers({"onmessage"}) =>
          aliveCount(grid', width, height) =
            aliveCount(grid, width, height) + uiLog'[1].born - uiLog'[1].died
       ]_vars

\* A step with both births and deaths, more of one than of the other.
C36_Witness ==
  /\ lastOp = "onmessage"
  /\ uiLog[1].born >= 1
  /\ uiLog[1].died >= 1
  /\ uiLog[1].born # uiLog[1].died
  /\ aliveCount(grid, width, height) >= 1

\* C37: growing the stored grid by kw columns and kh rows and resizing back to
\* the old dimensions gives back the grid, every cell at its place with its
\* age, for odd and even kw, kh, width and height; a resize leaves the
\* generation as it is.
C37_RoundTrip ==
  /\ [](\A kw, kh \in 0..GrowMax :
          LET grown == resizeGrid(grid, width, height, width + kw, height + kh)
              back == resizeGrid(grown[1], grown[2], grown[3], width, height)
          IN  /\ grown[2] = width + kw
              /\ grown[3] = height + kh
              /\ aliveCount(grown[1], grown[2], grown[3]) =
                   aliveCount(grid, width, height)
              /\ back = <<grid, width, height>>)
  /\ [][Handlers({"resizeGrid"}) => UNCHANGED generationCount]_vars

\* The 3x4 grid of cells 1..12 grown by odd differences to 6x5: resizing back
\* gives the 3x4 grid again.
C37_Witness ==
  /\ lastOp = "resizeGrid"
  /\ width = 6
  /\ height = 5
  /\ aliveCount(grid, width, height) = 12
  /\ resizeGrid(grid, width, height, 3, 4) = <<labelledGrid(3, 4), 3, 4>>

\* C38: in every record given to the UI callback, after a step, a clear or a
\* reset, oldestCurrent is at most oldestHistoric; in the record of a step
\* oldestCurrent is the greatest age stored in the grid at that moment, and
\* oldestHistoric is the historic oldest age of the controller.
C38_OldestOrder ==
  [][/\ \A i \in 1..Len(uiLog') :
          /\ uiLog'[i].oldestCurrent <= uiLog'[i].oldestHistoric
          /\ uiLog'[i].oldestHistoric = historicOldestAge'
     /\ Handlers({"handleClearGrid", "handleResetGrid", "onmessage"}) => Len(uiLog') = 1
     /\ Handlers({"onmessage"}) =>
          uiLog'[1].oldestCurrent = MaxOver(AgesIn(grid'))
    ]_vars

\* A step whose oldest cell is younger than the oldest there has been.
C38_Witness ==
  /\ lastOp = "onmessage"
  /\ Len(uiLog) = 1
  /\ uiLog[1].oldestCurrent < uiLog[1].oldestHistoric
  /\ uiLog[1].oldestHistoric >= 2

\* C39: resizeGrid with the current width and height leaves the grid as it is,
\* and every resizeGrid leaves the generation, the cumulative statistics, the
\* speed, isRunning, isCalculating, the timer and the outstanding requests as
\* they are, posts nothing and notifies nobody.
C39_ResizeFrame ==
  /\ [](resizeGrid(grid, width, height, width, height) = <<grid, width, height>>)
  /\ [][Handlers({"resizeGrid"}) =>
          /\ (width' = width /\ height' = height) => grid' = grid
          /\ posted' = 0
          /\ uiLog' = <<>>
          /\ UNCHANGED <<generationCount, statVars, simulationSpeed, isRunning,
                         isCalculating, timeoutId, timers, inFlight>>
       ]_vars

\* A resizeGrid while the simulation runs with a timer pending, steps applied
\* and deaths counted.
C39_Witness ==
  /\ lastOp = "resizeGrid"
  /\ isRunning
  /\ timers # {}
  /\ generationCount >= 1
  /\ totalDiedCount >= 1
  /\ width * height = 2
  /\ aliveCount(grid, width, height) = 0

\* C40: for every stored grid whose rows and columns match width and height,
\* the in-thread computeNextGeneration of gameLogic.js, reading the grid
\* store, and the worker's computeNextGeneration(grid, width, height) return
\* the same nextGrid and the same born, died and oldest; the step the worker
\* path applies is the one the in-thread engine computes.
C40_EnginesAgree ==
  /\ [](WellFormed(grid, width, height) =>
          gameLogicComputeNextGeneration(grid, width, height) =
            computeNextGeneration(grid, width, height))
  /\ [][(Handlers({"onmessage"}) /\ WellFormed(grid, width, height)) =>
          LET r == gameLogicComputeNextGeneration(grid, width, height)
          IN  /\ grid' = r.nextGrid
              /\ uiLog'[1].born = r.stats.born
              /\ uiLog'[1].died = r.stats.died
              /\ uiLog'[1].oldestCurrent = r.stats.oldest
       ]_vars

\* A grid left by a step, of at least two rows and three columns, that the
\* in-thread engine takes on with births, deaths and survivors.
C40_Witness ==
  /\ lastOp = "onmessage"
  /\ WellFormed(grid, width, height)
  /\ width >= 3
  /\ height >= 2
  /\ gameLogicComputeNextGeneration(grid, width, height).stats.born >= 1
  /\ gameLogicComputeNextGeneration(grid, width, height).stats.died >= 1
  /\ gameLogicComputeNextGeneration(grid, width, height).stats.oldest >= 2

====
